---- MODULE Spec2Model ----
(***************************************************************************)
(* Model of server.py, the HTTP/SSE bridge of MoodleCourseDownloader:      *)
(* the single-flight scraper supervisor (start_scraper, run_scraper and    *)
(* its two stream pumps), the line classifier, the process-wide run state  *)
(* (LOG_HISTORY, PROGRESS_STATE, DOWNLOADED_FILES, FILE_REGISTRY, STATE),  *)
(* the SSE fan-out (StreamClient.push, broadcast) and the per-connection   *)
(* stream handler (RequestHandler._handle_stream).                         *)
(*                                                                         *)
(* Threads interleave at the granularity of one access to a shared object  *)
(* (the interpreter lock makes a single deque/dict/queue operation atomic, *)
(* and nothing more).                                                      *)
(***************************************************************************)
EXTENDS Integers, Sequences, FiniteSets, TLC

\* ------------------------------------------------------------------ bounds
\* start() calls made over the whole behaviour (each may be accepted)
MaxCalls == 2
\* lines the pumps read, all runs together
MaxLines == 1
\* lines the worker writes during the run that SSE clients observe
StreamMaxLines == 2
\* progress messages applied one after the other
ProgressCalls == 2
\* download messages registered one after the other
DownloadCalls == 4
\* log lines read by the pumps of the run in the specification of LOG_HISTORY
LogCalls == 4
\* concurrent SSE connections
NumClients == 1
\* HTTP handler threads that call start_scraper
NumCallers == 2
\* StreamClient.queue maxsize (500 in the source, scaled down)
QUEUE_MAXSIZE == 2
\* LOG_HISTORY maxlen (500 in the source, scaled down)
LOG_MAXLEN == 2
\* DOWNLOADED_FILES maxlen (300 in the source, scaled down)
FILES_MAXLEN == 2

Runs == 1..MaxCalls
Callers == 1..NumCallers
Clients == 1..NumClients
Streams == {"stdout", "stderr"}
\* a thread of the supervisor: the run thread of run r, or one of its pumps
Threads == Runs \X {"run", "stdout", "stderr"}
RunT(r) == <<r, "run">>
PumpT(r, s) == <<r, s>>
Pumps == Runs \X Streams

VARIABLES
    State,             \* STATE["status"] (STATE is a reserved word)
    LOG_HISTORY,       \* deque(maxlen) of log entries
    PROGRESS_STATE,    \* dict of the latest progress fields
    DOWNLOADED_FILES,  \* deque(maxlen) of file descriptors, newest first
    FILE_REGISTRY,     \* dict file id -> path
    CLIENTS,           \* list of connected StreamClients
    clientsLock,       \* CLIENTS_LOCK: <<>> when free, else <<holder thread>>
    bcTodo,            \* the clients the broadcast in progress has still to push to
    bcPhase,           \* where StreamClient.push stands for the head of bcTodo
    SCRAPER_THREAD,    \* 0 (None) or the run whose thread it names
    SCRAPER_PROCESS,   \* 0 (None) or the run whose Popen object it names
    callPc,            \* position of each HTTP thread inside start_scraper
    callRes,           \* what the caller's last start_scraper call returned
    nCalls,            \* start_scraper calls made so far
    nRuns,             \* run threads created so far
    pc,                \* position of every supervisor thread
    loc,               \* locals of every supervisor thread
    proc,              \* the worker process of each run
    nLines,            \* lines the pumps have read so far, all runs together
    queue,             \* StreamClient.queue of each client
    alive,             \* StreamClient.alive of each client
    sessPc,            \* position of each _handle_stream call
    sessIt,            \* the deque iterator of the snapshot loop in progress
    wire,              \* the frame each session wrote last (<<>> before the first)
    snapLogs,          \* time stamps of the log entries each snapshot has written
    got,               \* publish indices each session dequeued and wrote
    sessErr,           \* how each session left its try block
    published,         \* every message handed to broadcast, in lock order
    overflow,          \* clients whose queue raised queue.Full at least once
    console,           \* lines the pumps printed to the server's own stdout
    clock,             \* calls of current_timestamp() so far
    subAt,             \* number of events published before the client subscribed
    sawRun,            \* whether a run thread was alive when the caller made its check
    race               \* the first calls that overlapped with no run in flight, and their results

vars == <<State, LOG_HISTORY, PROGRESS_STATE, DOWNLOADED_FILES, FILE_REGISTRY,
          CLIENTS, clientsLock, bcTodo, bcPhase, SCRAPER_THREAD, SCRAPER_PROCESS,
          callPc, callRes, nCalls, nRuns, pc, loc, proc, nLines, queue, alive,
          sessPc, sessIt, wire, snapLogs, got, sessErr, published, overflow, console,
          clock, subAt, sawRun, race>>

runStateVars == <<State, LOG_HISTORY, PROGRESS_STATE, DOWNLOADED_FILES, FILE_REGISTRY>>
busVars == <<CLIENTS, clientsLock, bcTodo, bcPhase, queue, published, overflow>>
startVars == <<SCRAPER_THREAD, SCRAPER_PROCESS, callPc, callRes, nCalls, nRuns, sawRun,
              race>>
sessVars == <<alive, sessPc, sessIt, wire, snapLogs, got, sessErr, subAt>>

\* ------------------------------------------------------- python data model
\* None, for the fields that otherwise hold a timestamp / a string
NoneTime == 0
NoneStr == "None"

\* an append that makes room by dropping the newest entry
DequeAppendDropNewest(d, x, n) ==
    IF Len(d) >= n THEN Append(SubSeq(d, 1, n - 1), x) ELSE Append(d, x)

\* deque.append / deque.appendleft on a deque(maxlen=n): the far end is dropped
DequeAppend(d, x, n) ==
    IF Len(d) >= n THEN Append(SubSeq(d, Len(d) - n + 2, Len(d)), x) ELSE Append(d, x)

DequeAppendLeft(d, x, n) ==
    IF Len(d) >= n THEN <<x>> \o SubSeq(d, 1, n - 1) ELSE <<x>> \o d

\* del d[i] (1-based here)
DequeDel(d, i) == SubSeq(d, 1, i - 1) \o SubSeq(d, i + 1, Len(d))

RemoveFirst(s, x) ==
    LET idx == {i \in 1..Len(s) : s[i] = x}
    IN IF idx = {} THEN s
       ELSE LET i == CHOOSE j \in idx : \A k \in idx : j <= k IN DequeDel(s, i)

InSeq(x, s) == \E i \in 1..Len(s) : s[i] = x

\* PROGRESS_STATE as the module sets it up and as reset_run_state restores it
InitialProgress ==
    [total |-> 0, completed |-> 0, active |-> 0, pending |-> 0, percent |-> 0,
     startedAt |-> NoneTime, lastUpdated |-> NoneTime, stage |-> "idle",
     current |-> NoneStr, lastCompleted |-> NoneStr, message |-> NoneStr]

\* append_log's entry: type, stream, message, time (no extra fields here)
LogEntry(stream, message, time) ==
    [type |-> "log", stream |-> stream, message |-> message, time |-> time]

\* ---------------------------------------------------------- JSON payloads
\* A decoded JSON value is tagged with its Python type.  A dict is a record of
\* such values; dict.get of a missing key gives None.
JNull == [t |-> "null"]
JNum(n) == [t |-> "num", v |-> n]
JStr(s) == [t |-> "str", s |-> s]
JNaN == [t |-> "nan"]
JInf == [t |-> "inf"]
JNegInf == [t |-> "ninf"]
JObj(o) == [t |-> "obj", o |-> o]
JInvalid == [t |-> "invalid"]

Get(d, k) == IF k \in DOMAIN d THEN d[k] ELSE JNull

Truthy(x) ==
    CASE x.t = "null" -> FALSE
      [] x.t = "num" -> x.v # 0
      [] x.t = "str" -> x.s # ""
      [] x.t = "obj" -> DOMAIN x.o # {}
      [] OTHER -> TRUE

\* Python's `a or b`
PyOr(a, b) == IF Truthy(a) THEN a ELSE b

\* the strings of the model that int() and float() accept, with their value
NumericStrings == [s \in {"3"} |-> 3]

\* int(x): the number, or the ValueError/TypeError/OverflowError it raises
IntOf(x) ==
    CASE x.t = "num" -> [ok |-> TRUE, v |-> x.v]
      [] x.t = "str" /\ x.s \in DOMAIN NumericStrings -> [ok |-> TRUE, v |-> NumericStrings[x.s]]
      [] OTHER -> [ok |-> FALSE, v |-> 0]

\* float(x): a finite number, nan, inf, -inf, or the error it raises
FloatOf(x) ==
    CASE x.t \in {"num", "nan", "inf", "ninf"} -> [ok |-> TRUE, v |-> x]
      [] x.t = "str" /\ x.s \in DOMAIN NumericStrings -> [ok |-> TRUE, v |-> JNum(NumericStrings[x.s])]
      [] OTHER -> [ok |-> FALSE, v |-> JNum(0)]

\* a < b on floats: every comparison with nan is false
FLt(a, b) ==
    CASE a.t = "nan" \/ b.t = "nan" -> FALSE
      [] a.t = "ninf" -> b.t # "ninf"
      [] a.t = "inf" -> FALSE
      [] b.t = "inf" -> TRUE
      [] b.t = "ninf" -> FALSE
      [] OTHER -> a.v < b.v

\* min(a, b) and max(a, b) of Python: the first argument unless the second beats it
PyMin(a, b) == IF FLt(b, a) THEN b ELSE a
PyMax(a, b) == IF FLt(a, b) THEN b ELSE a

\* a clamp with its two bounds exchanged
ClampSwapped(x) == PyMin([t |-> "num", v |-> 0], PyMax([t |-> "num", v |-> 100], x))

\* update_progress_state, line 149: max(0.0, min(100.0, percent_raw))
Clamp(x) == PyMax(JNum(0), PyMin(JNum(100), x))

Max0(n) == IF n > 0 THEN n ELSE 0

\* (completed / total) * 100 for total # 0; the payloads of the model keep the
\* quotient an integer
Ratio100(completed, total) ==
    IF total > 0 THEN (completed * 100) \div total
    ELSE -((completed * 100) \div (-total))

\* update_progress_state, lines 144-150: the values computed from the payload,
\* ok = FALSE when one of the int()/float() conversions raises
ProgressValues(payload, state) ==
    LET total == IntOf(PyOr(Get(payload, "total"), JNum(0)))
        completed == IntOf(PyOr(Get(payload, "completed"), JNum(0)))
        active == IntOf(PyOr(Get(payload, "active"), JNum(0)))
        pending == IntOf(PyOr(Get(payload, "pending"),
                              JNum(Max0(total.v - completed.v - active.v))))
        percent_raw == FloatOf(PyOr(Get(payload, "percent"),
                                    JNum(IF total.v = 0 THEN 100
                                         ELSE Ratio100(completed.v, total.v))))
        percent == Clamp(percent_raw.v)
        started == Get(payload, "startedAt")
    IN [ok |-> total.ok /\ completed.ok /\ active.ok /\ pending.ok /\ percent_raw.ok,
        total |-> total.v, completed |-> completed.v, active |-> active.v,
        pending |-> pending.v, percent |-> percent.v,
        startedAt |-> IF Truthy(started) THEN started.v ELSE state.startedAt]

\* payload.get(key) of a string-valued field, None when absent or null
StrField(payload, key) ==
    LET x == Get(payload, key) IN IF x.t = "str" THEN x.s ELSE NoneStr

\* update_progress_state, lines 151-159: the first PROGRESS_STATE.update
ProgressUpdate(state, v, now) ==
    [state EXCEPT !.total = v.total, !.completed = v.completed, !.active = v.active,
                  !.pending = v.pending, !.percent = v.percent,
                  !.startedAt = v.startedAt, !.lastUpdated = now]

\* update_progress_state, lines 171-177: stage, current, lastCompleted, message
ProgressDetails(state, payload) ==
    [state EXCEPT !.stage = StrField(payload, "stage"),
                  !.current = StrField(payload, "current"),
                  !.lastCompleted = StrField(payload, "lastCompleted"),
                  !.message = StrField(payload, "message")]

\* update_progress_state, lines 160-179: the broadcast entry
ProgressEntry(payload, v, now) ==
    LET base == [type |-> "progress", time |-> now, total |-> v.total,
                 completed |-> v.completed, active |-> v.active,
                 pending |-> v.pending, percent |-> v.percent]
        started == IF v.startedAt # NoneTime THEN [startedAt |-> v.startedAt] ELSE <<>>
        stage == LET s == StrField(payload, "stage")
                 IN IF s \notin {NoneStr, ""} THEN [stage |-> s] ELSE <<>>
        keys == {k \in {"current", "lastCompleted", "message"} :
                     StrField(payload, k) # NoneStr}
        rest == [k \in keys |-> StrField(payload, k)]
    IN base @@ started @@ stage @@ rest

\* ------------------------------------------------------------------- Init
NoLoc == [k |-> "none"]
NoIter == [idx |-> 0, dirty |-> FALSE]

\* serve() has logged its "listening" line (line 671) before the first request
\* is handled; no client was connected, so that broadcast reached nobody.
ListeningEntry == LogEntry("stdout", "Python bridge listening", 1)

Init ==
    /\ State = "idle"
    /\ LOG_HISTORY = <<ListeningEntry>>
    /\ PROGRESS_STATE = InitialProgress
    /\ DOWNLOADED_FILES = <<>>
    /\ FILE_REGISTRY = <<>>
    /\ CLIENTS = <<>>
    /\ clientsLock = <<>>
    /\ bcTodo = <<>>
    /\ bcPhase = "put"
    /\ SCRAPER_THREAD = 0
    /\ SCRAPER_PROCESS = 0
    /\ callPc = [c \in Callers |-> "idle"]
    /\ callRes = [c \in Callers |-> "none"]
    /\ nCalls = 0
    /\ nRuns = 0
    /\ pc = [t \in Threads |-> "none"]
    /\ loc = [t \in Threads |-> NoLoc]
    /\ proc = [r \in Runs |-> [st |-> "none", code |-> 0]]
    /\ nLines = 0
    /\ queue = [c \in Clients |-> <<>>]
    /\ alive = [c \in Clients |-> TRUE]
    /\ sessPc = [c \in Clients |-> "idle"]
    /\ sessIt = [c \in Clients |-> NoIter]
    /\ wire = [c \in Clients |-> <<>>]
    /\ snapLogs = [c \in Clients |-> <<>>]
    /\ got = [c \in Clients |-> <<>>]
    /\ sessErr = [c \in Clients |-> "none"]
    /\ published = <<ListeningEntry>>
    /\ overflow = {}
    /\ console = {}
    /\ clock = 1
    /\ subAt = [c \in Clients |-> 0]
    /\ sawRun = [c \in Callers |-> FALSE]
    /\ race = [calls |-> {}, res |-> <<>>]

\* ------------------------------------------------ StreamClient / broadcast
\* A deque iterator raises RuntimeError at its next step once the deque was
\* mutated: every mutation of LOG_HISTORY marks the snapshot loops over it.
TouchLog(it) ==
    [c \in Clients |-> IF sessPc[c] = "s_logs" THEN [it[c] EXCEPT !.dirty = TRUE] ELSE it[c]]

TouchFiles(it) ==
    [c \in Clients |-> IF sessPc[c] = "s_files" THEN [it[c] EXCEPT !.dirty = TRUE] ELSE it[c]]

\* the comprehension of register_download (line 228) iterates DOWNLOADED_FILES too
TouchScan(l, self) ==
    [t \in Threads |-> IF t # self /\ pc[t] = "d_scan" THEN [l[t] EXCEPT !.dirty = TRUE] ELSE l[t]]

\* a mailbox that hands out its newest entry first
QueuePutFront(q, x) == <<x>> \o q

\* queue.put_nowait (lines 108 and 116) on the queue.Queue of line 101: the
\* entry goes to the back, get takes from the front
QueuePut(q, x) == Append(q, x)

\* an eviction that removes the entry put last
EvictNewest(q) == SubSeq(q, 1, Len(q) - 1)

\* queue.get_nowait() of push's except branch: the oldest entry leaves
EvictOldest(q) == Tail(q)

\* a thread that has a message to broadcast stands at "bcast" with the message
\* and the label it goes on to
ToBroadcast(msg, ret) == [k |-> "bcast", msg |-> msg, ret |-> ret]

\* the broadcast in progress moves on to its next client, or ends: the lock is
\* released and the broadcasting thread goes on
BcastAdvance ==
    LET t == clientsLock[1] IN
    /\ bcTodo' = Tail(bcTodo)
    /\ bcPhase' = "put"
    /\ IF Len(bcTodo) = 1
       THEN /\ clientsLock' = <<>>
            /\ pc' = [pc EXCEPT ![t] = loc[t].ret]
            /\ loc' = [loc EXCEPT ![t] = NoLoc]
       ELSE UNCHANGED <<clientsLock, pc, loc>>

\* broadcast, lines 124-125: take CLIENTS_LOCK and copy the list
BcastAcquire(t) ==
    /\ pc[t] = "bcast"
    /\ clientsLock = <<>>
    /\ published' = Append(published, loc[t].msg)
    /\ IF CLIENTS = <<>>
       THEN /\ pc' = [pc EXCEPT ![t] = loc[t].ret]
            /\ loc' = [loc EXCEPT ![t] = NoLoc]
            /\ UNCHANGED <<clientsLock, bcTodo>>
       ELSE /\ clientsLock' = <<t>>
            /\ bcTodo' = CLIENTS
            /\ UNCHANGED <<pc, loc>>
    /\ UNCHANGED <<runStateVars, CLIENTS, bcPhase, queue, overflow, startVars, proc,
                   nLines, sessVars, console, clock>>

\* StreamClient.push, lines 105-109: the alive test and the first put_nowait
PushPut ==
    /\ clientsLock # <<>>
    /\ bcPhase = "put"
    /\ LET c == Head(bcTodo) IN
       \/ /\ ~alive[c]
          /\ BcastAdvance
          /\ UNCHANGED <<queue, overflow>>
       \/ /\ alive[c]
          /\ Len(queue[c]) < QUEUE_MAXSIZE
          /\ queue' = [queue EXCEPT ![c] = QueuePut(@, Len(published))]
          /\ BcastAdvance
          /\ UNCHANGED overflow
       \/ /\ alive[c]
          /\ Len(queue[c]) >= QUEUE_MAXSIZE
          /\ bcPhase' = "evict"
          /\ overflow' = overflow \cup {c}
          /\ UNCHANGED <<queue, bcTodo, clientsLock, pc, loc>>
    /\ UNCHANGED <<runStateVars, CLIENTS, published, startVars, proc, nLines, sessVars,
                   console, clock>>

\* StreamClient.push, lines 111-114: queue.Full was raised, drop the oldest entry
PushEvict ==
    /\ clientsLock # <<>>
    /\ bcPhase = "evict"
    /\ LET c == Head(bcTodo) IN
       queue' = [queue EXCEPT ![c] = IF @ = <<>> THEN @ ELSE EvictOldest(@)]
    /\ bcPhase' = "reput"
    /\ UNCHANGED <<runStateVars, CLIENTS, clientsLock, bcTodo, published, overflow,
                   startVars, pc, loc, proc, nLines, sessVars, console, clock>>

\* StreamClient.push, lines 115-118: the second put_nowait
PushReput ==
    /\ clientsLock # <<>>
    /\ bcPhase = "reput"
    /\ LET c == Head(bcTodo) IN
       queue' = [queue EXCEPT ![c] = IF Len(@) < QUEUE_MAXSIZE
                                       THEN QueuePut(@, Len(published)) ELSE @]
    /\ BcastAdvance
    /\ UNCHANGED <<runStateVars, CLIENTS, published, overflow, startVars, proc, nLines,
                   sessVars, console, clock>>

\* ----------------------------------------------------------- start_scraper
ThreadAlive(r) == pc[RunT(r)] \notin {"none", "done"}

\* scraper_running, lines 397-399
scraper_running == SCRAPER_THREAD # 0 /\ ThreadAlive(SCRAPER_THREAD)

\* start_scraper without its lock: the check and the thread creation of one
\* caller interleave with those of another
NoStartLock == TRUE

\* SCRAPER_LOCK, line 481: no other caller is inside the with block
LockFree == \A c \in Callers : callPc[c] \in {"idle", "lock"}

\* an HTTP thread enters start_scraper (POST /api/run, line 575)
CallStart(c, budget) ==
    /\ callPc[c] = "idle"
    /\ nCalls < budget
    /\ callPc' = [callPc EXCEPT ![c] = "lock"]
    /\ callRes' = [callRes EXCEPT ![c] = "none"]
    /\ nCalls' = nCalls + 1
    /\ race' = IF /\ race.res = <<>>
                  /\ \E d \in Callers \ {c} : callPc[d] = "lock"
                  /\ LockFree
                  /\ ~scraper_running
               THEN [race EXCEPT !.calls = {c} \cup {d \in Callers : callPc[d] = "lock"}]
               ELSE race
    /\ UNCHANGED <<runStateVars, busVars, SCRAPER_THREAD, SCRAPER_PROCESS, nRuns, sawRun, pc,
                   loc, proc, nLines, sessVars, console, clock>>

AnyRunAlive == \E r \in Runs : ThreadAlive(r)

CallReturn(c, res, saw) ==
    /\ callPc' = [callPc EXCEPT ![c] = "idle"]
    /\ callRes' = [callRes EXCEPT ![c] = res]
    /\ sawRun' = [sawRun EXCEPT ![c] = FALSE]
    /\ race' = IF c \in race.calls
               THEN [calls |-> race.calls \ {c},
                     res |-> Append(race.res, [res |-> res, inflight |-> saw])]
               ELSE race

\* start_scraper, lines 481-483: the lock is taken, a run is in flight
StartRejected(c) ==
    /\ callPc[c] = "lock"
    /\ LockFree
    /\ scraper_running
    /\ CallReturn(c, "busy", AnyRunAlive)
    /\ UNCHANGED <<runStateVars, busVars, SCRAPER_THREAD, SCRAPER_PROCESS, nCalls, nRuns,
                   pc, loc, proc, nLines, sessVars, console, clock>>

\* start_scraper, lines 481-484, and reset_run_state, lines 67-79
StartAccepted(c) ==
    /\ callPc[c] = "lock"
    /\ LockFree
    /\ ~scraper_running
    /\ PROGRESS_STATE' = InitialProgress
    /\ callPc' = [callPc EXCEPT ![c] = "reset_files"]
    /\ sawRun' = [sawRun EXCEPT ![c] = AnyRunAlive]
    /\ UNCHANGED <<State, LOG_HISTORY, DOWNLOADED_FILES, FILE_REGISTRY, busVars,
                   SCRAPER_THREAD, SCRAPER_PROCESS, callRes, nCalls, nRuns, race, pc, loc,
                   proc, nLines, sessVars, console, clock>>

\* a reset that leaves DOWNLOADED_FILES as it is
ResetFilesSkipped(c) ==
    /\ callPc[c] = "reset_files"
    /\ callPc' = [callPc EXCEPT ![c] = "reset_registry"]
    /\ UNCHANGED <<runStateVars, busVars, SCRAPER_THREAD, SCRAPER_PROCESS, callRes, nCalls,
                   nRuns, sawRun, race, pc, loc, proc, nLines, sessVars, console, clock>>

\* reset_run_state, line 80: DOWNLOADED_FILES.clear()
ResetFiles(c) ==
    /\ callPc[c] = "reset_files"
    /\ DOWNLOADED_FILES' = <<>>
    /\ sessIt' = IF DOWNLOADED_FILES # <<>> THEN TouchFiles(sessIt) ELSE sessIt
    /\ loc' = IF DOWNLOADED_FILES # <<>> THEN TouchScan(loc, <<0, "none">>) ELSE loc
    /\ callPc' = [callPc EXCEPT ![c] = "reset_registry"]
    /\ UNCHANGED <<State, LOG_HISTORY, PROGRESS_STATE, FILE_REGISTRY, busVars,
                   SCRAPER_THREAD, SCRAPER_PROCESS, callRes, nCalls, nRuns, sawRun, race, pc,
                   proc, nLines, alive, sessPc, wire, snapLogs, got, sessErr, subAt, console, clock>>

\* reset_run_state, line 81: FILE_REGISTRY.clear()
ResetRegistry(c) ==
    /\ callPc[c] = "reset_registry"
    /\ FILE_REGISTRY' = <<>>
    /\ callPc' = [callPc EXCEPT ![c] = "spawn"]
    /\ UNCHANGED <<State, LOG_HISTORY, PROGRESS_STATE, DOWNLOADED_FILES, busVars,
                   SCRAPER_THREAD, SCRAPER_PROCESS, callRes, nCalls, nRuns, sawRun, race, pc, loc,
                   proc, nLines, sessVars, console, clock>>

\* start_scraper, lines 485-487: the run thread is created and started
StartThread(c) ==
    /\ callPc[c] = "spawn"
    /\ nRuns' = nRuns + 1
    /\ SCRAPER_THREAD' = nRuns + 1
    /\ pc' = [pc EXCEPT ![RunT(nRuns + 1)] = "r_starting"]
    /\ CallReturn(c, "ok", sawRun[c])
    /\ UNCHANGED <<runStateVars, busVars, SCRAPER_PROCESS, nCalls, loc, proc, nLines,
                   sessVars, console, clock>>

\* ------------------------------------------------------------- run_scraper
StatusEvent(status, details) == [type |-> "status", status |-> status] @@ details

\* set_status, lines 280-284: STATE is written, then the payload is broadcast
SetStatus(t, status, details, ret) ==
    /\ State' = status
    /\ loc' = [loc EXCEPT ![t] = ToBroadcast(StatusEvent(status, details), ret)]
    /\ pc' = [pc EXCEPT ![t] = "bcast"]

\* run_scraper, line 420
RunSetStarting(r) ==
    /\ pc[RunT(r)] = "r_starting"
    /\ SetStatus(RunT(r), "starting", [args |-> <<>>], "r_popen")
    /\ UNCHANGED <<LOG_HISTORY, PROGRESS_STATE, DOWNLOADED_FILES, FILE_REGISTRY, busVars,
                   startVars, proc, nLines, sessVars, console, clock>>

\* run_scraper, lines 428-436 and 450: Popen succeeds
RunSpawned(r) ==
    /\ pc[RunT(r)] = "r_popen"
    /\ SCRAPER_PROCESS' = r
    /\ proc' = [proc EXCEPT ![r].st = "live"]
    /\ pc' = [pc EXCEPT ![RunT(r)] = "r_running"]
    /\ UNCHANGED <<runStateVars, busVars, SCRAPER_THREAD, callPc, callRes, nCalls, nRuns,
                   sawRun, race, loc, nLines, sessVars, console, clock>>

\* append_log, lines 130-138: the entry is built and appended to LOG_HISTORY;
\* the broadcast of line 139 follows
AppendLog(t, stream, message, extra, ret) ==
    LET entry == extra @@ LogEntry(stream, message, clock + 1) IN
    /\ clock' = clock + 1
    /\ LOG_HISTORY' = DequeAppend(LOG_HISTORY, entry, LOG_MAXLEN)
    /\ sessIt' = TouchLog(sessIt)
    /\ loc' = [loc EXCEPT ![t] = ToBroadcast(entry, ret)]
    /\ pc' = [pc EXCEPT ![t] = "bcast"]

\* the two except branches of run_scraper: the reason of the status event, the
\* log message, and the label of the set_status that follows
SpawnErrors ==
    [r \in {"node-not-found", "spawn-failed"} |->
        IF r = "node-not-found"
        THEN [message |-> "Node runtime not found", label |-> "r_error_notfound"]
        ELSE [message |-> "Failed to start scraper", label |-> "r_error_spawn"]]

\* an except branch that logs the failure and then falls through to line 450
RunSpawnFailedFallThrough(r) ==
    /\ pc[RunT(r)] = "r_popen"
    /\ \E reason \in DOMAIN SpawnErrors :
          AppendLog(RunT(r), "stderr", SpawnErrors[reason].message, <<>>, "r_running")
    /\ UNCHANGED <<State, PROGRESS_STATE, DOWNLOADED_FILES, FILE_REGISTRY, busVars,
                   startVars, proc, nLines, alive, sessPc, wire, snapLogs, got, sessErr, subAt, console>>

\* run_scraper, lines 437-438 and 443-444: Popen raises
RunSpawnFailed(r) ==
    /\ pc[RunT(r)] = "r_popen"
    /\ \E reason \in DOMAIN SpawnErrors :
          AppendLog(RunT(r), "stderr", SpawnErrors[reason].message, <<>>,
                    SpawnErrors[reason].label)
    /\ UNCHANGED <<State, PROGRESS_STATE, DOWNLOADED_FILES, FILE_REGISTRY, busVars,
                   startVars, proc, nLines, alive, sessPc, wire, snapLogs, got, sessErr, subAt, console>>

\* an except branch without its return: after the error status the thread goes
\* on to line 450
RunSetErrorNoReturn(r) ==
    /\ \E reason \in DOMAIN SpawnErrors :
          /\ pc[RunT(r)] = SpawnErrors[reason].label
          /\ SetStatus(RunT(r), "error", [reason |-> reason], "r_running")
    /\ UNCHANGED <<LOG_HISTORY, PROGRESS_STATE, DOWNLOADED_FILES, FILE_REGISTRY, busVars,
                   startVars, proc, nLines, sessVars, console, clock>>

\* run_scraper, lines 439 and 445
RunSetError(r) ==
    /\ \E reason \in DOMAIN SpawnErrors :
          /\ pc[RunT(r)] = SpawnErrors[reason].label
          /\ SetStatus(RunT(r), "error", [reason |-> reason], "r_clear")
    /\ UNCHANGED <<LOG_HISTORY, PROGRESS_STATE, DOWNLOADED_FILES, FILE_REGISTRY, busVars,
                   startVars, proc, nLines, sessVars, console, clock>>

\* run_scraper, line 450
RunSetRunning(r) ==
    /\ pc[RunT(r)] = "r_running"
    /\ SetStatus(RunT(r), "running", [pid |-> r], "r_pumps")
    /\ UNCHANGED <<LOG_HISTORY, PROGRESS_STATE, DOWNLOADED_FILES, FILE_REGISTRY, busVars,
                   startVars, proc, nLines, sessVars, console, clock>>

\* run_scraper, lines 464-467: both pump threads are started
RunStartPumps(r) ==
    /\ pc[RunT(r)] = "r_pumps"
    /\ pc' = [pc EXCEPT ![RunT(r)] = "r_wait",
                        ![PumpT(r, "stdout")] = "p_read",
                        ![PumpT(r, "stderr")] = "p_read"]
    /\ UNCHANGED <<runStateVars, busVars, startVars, loc, proc, nLines, sessVars, console,
                   clock>>

\* the worker process exits with some exit code
WorkerExit(r, codes) ==
    /\ proc[r].st = "live"
    /\ \E code \in codes : proc' = [proc EXCEPT ![r] = [st |-> "exited", code |-> code]]
    /\ UNCHANGED <<runStateVars, busVars, startVars, pc, loc, nLines, sessVars, console,
                   clock>>

\* run_scraper, line 469: SCRAPER_PROCESS.wait()
RunWait(r) ==
    /\ pc[RunT(r)] = "r_wait"
    /\ proc[r].st = "exited"
    /\ pc' = [pc EXCEPT ![RunT(r)] = "r_join"]
    /\ UNCHANGED <<runStateVars, busVars, startVars, loc, proc, nLines, sessVars, console,
                   clock>>

\* joins without a timeout: the run thread waits until both pumps have ended
RunJoinUntilEnded(r) ==
    /\ pc[RunT(r)] = "r_join"
    /\ \A s \in {"stdout", "stderr"} : pc[PumpT(r, s)] \in {"done", "crashed"}
    /\ pc' = [pc EXCEPT ![RunT(r)] = "r_finished"]
    /\ UNCHANGED <<runStateVars, busVars, startVars, loc, proc, nLines, sessVars, console,
                   clock>>

\* run_scraper, lines 470-471: each join returns when its pump has ended or
\* after one second, whichever comes first
RunJoin(r) ==
    /\ pc[RunT(r)] = "r_join"
    /\ pc' = [pc EXCEPT ![RunT(r)] = "r_finished"]
    /\ UNCHANGED <<runStateVars, busVars, startVars, loc, proc, nLines, sessVars, console,
                   clock>>

\* a supervisor that reports a non-zero exit code as an error
RunSetFinishedByCode(r) ==
    /\ pc[RunT(r)] = "r_finished"
    /\ SetStatus(RunT(r), IF proc[r].code = 0 THEN "finished" ELSE "error",
                 [code |-> proc[r].code], "r_clear")
    /\ UNCHANGED <<LOG_HISTORY, PROGRESS_STATE, DOWNLOADED_FILES, FILE_REGISTRY, busVars,
                   startVars, proc, nLines, sessVars, console, clock>>

\* run_scraper, lines 473-474
RunSetFinished(r) ==
    /\ pc[RunT(r)] = "r_finished"
    /\ SetStatus(RunT(r), "finished", [code |-> proc[r].code], "r_clear")
    /\ UNCHANGED <<LOG_HISTORY, PROGRESS_STATE, DOWNLOADED_FILES, FILE_REGISTRY, busVars,
                   startVars, proc, nLines, sessVars, console, clock>>

\* run_scraper, lines 440-442 and 475-476: the globals are cleared, the thread ends
RunClear(r) ==
    /\ pc[RunT(r)] = "r_clear"
    /\ SCRAPER_PROCESS' = 0
    /\ SCRAPER_THREAD' = 0
    /\ pc' = [pc EXCEPT ![RunT(r)] = "done"]
    /\ UNCHANGED <<runStateVars, busVars, callPc, callRes, nCalls, nRuns, sawRun, race, loc, proc,
                   nLines, sessVars, console, clock>>

\* ------------------------------------------------------- register_download
\* base64.urlsafe_b64encode(path): one id per path, never the path itself
FileId(path) == <<"b64", path>>

\* os.path.splitext(path)[1][1:], mimetypes.guess_type(path) and
\* os.path.getsize(path) for the paths of the model; a path that is not on disk
\* has no size (OSError)
PathFacts ==
    [p \in {"/out/a.md", "/out/b.pdf", "/out/c.png"} |->
        CASE p = "/out/a.md" -> [ext |-> "md", guess |-> NoneStr, size |-> <<>>]
          [] p = "/out/b.pdf" -> [ext |-> "pdf", guess |-> "application/pdf", size |-> <<7>>]
          [] OTHER -> [ext |-> "png", guess |-> "image/png", size |-> <<>>]]

TEXT_PREVIEW_MIMES ==
    {"text/plain", "text/markdown", "text/csv", "application/json", "application/xml"}

IsImage(mime) == mime \in {"image/png", "image/jpeg"}

\* register_download, lines 185-190: the file object and its non-empty path
DownloadPath(payload) ==
    LET file == Get(payload, "file") IN
    IF file.t # "obj" THEN NoneStr
    ELSE LET path == Get(file.o, "path")
         IN IF path.t = "str" /\ path.s # "" THEN path.s ELSE NoneStr

\* register_download, lines 193-227: the descriptor (relativePath, sectionPath,
\* sizeHuman, resourceName and url are copied or formatted fields, left out)
Descriptor(info, path, now) ==
    LET given == Get(info, "sizeBytes")
        size == IF Truthy(given) THEN given.v
                ELSE IF PathFacts[path].size # <<>> THEN PathFacts[path].size[1] ELSE 0
        extension == IF Truthy(Get(info, "extension")) THEN Get(info, "extension").s
                     ELSE PathFacts[path].ext
        guessed == IF Truthy(Get(info, "mime")) THEN Get(info, "mime").s
                   ELSE PathFacts[path].guess
        mime == IF guessed = NoneStr /\ extension = "md" THEN "text/markdown" ELSE guessed
        previewable ==
            IF mime # NoneStr
            THEN IsImage(mime) \/ mime = "application/pdf" \/ mime \in TEXT_PREVIEW_MIMES
            ELSE extension \in {"pdf", "txt", "md", "json", "csv"}
        stamp == Get(info, "downloadedAt")
    IN [id |-> FileId(path), sizeBytes |-> size, extension |-> extension,
        mime |-> IF mime = NoneStr THEN "application/octet-stream" ELSE mime,
        previewable |-> previewable,
        downloadedAt |-> IF Truthy(stamp) THEN stamp.v ELSE now]

\* a registration that never finds an earlier entry
ExistingNone(files) == [id \in {} |-> 0]

\* line 228: {item.get('id'): idx for idx, item in enumerate(DOWNLOADED_FILES)},
\* a later index wins when an id occurs twice
ExistingIndex(files) ==
    [id \in {files[i].id : i \in 1..Len(files)} |->
        CHOOSE i \in 1..Len(files) :
            /\ files[i].id = id
            /\ \A j \in 1..Len(files) : files[j].id = id => j <= i]

DownloadEntry(desc) == [type |-> "download", time |-> desc.downloadedAt, file |-> desc]

\* ------------------------------------------------------------ stream pumps
\* What the worker may write on a stream: the text of a line and what json.loads
\* makes of it (JInvalid: JSONDecodeError).
WorkerLines ==
    { [text |-> "", json |-> JInvalid],
      [text |-> "Hello world", json |-> JInvalid],
      [text |-> "42", json |-> JNum(42)],
      [text |-> "{type:other}", json |-> JObj([type |-> JStr("other")])],
      [text |-> "{type:log}", json |-> JObj([type |-> JStr("log")])],
      [text |-> "{type:log,message:m,level:warn}",
       json |-> JObj([type |-> JStr("log"), message |-> JStr("m"), level |-> JStr("warn")])],
      [text |-> "{type:progress,total:2,completed:1}",
       json |-> JObj([type |-> JStr("progress"), total |-> JNum(2), completed |-> JNum(1),
                      stage |-> JStr("download")])],
      [text |-> "{type:progress,total:many}",
       json |-> JObj([type |-> JStr("progress"), total |-> JStr("many")])],
      [text |-> "{type:download}", json |-> JObj([type |-> JStr("download")])],
      [text |-> "{type:download,file:{path:/out/a.md,sizeBytes:1}}",
       json |-> JObj([type |-> JStr("download"),
                      file |-> JObj([path |-> JStr("/out/a.md"), sizeBytes |-> JNum(1)])])],
      [text |-> "{type:download,file:{path:/out/a.md,sizeBytes:2}}",
       json |-> JObj([type |-> JStr("download"),
                      file |-> JObj([path |-> JStr("/out/a.md"), sizeBytes |-> JNum(2)])])] }

\* handle_structured_message, lines 241-265: what becomes of a decoded line
MessageType(json) ==
    IF json.t # "obj" THEN NoneStr ELSE StrField(json.o, "type")

\* process_scraper_line and handle_structured_message: "skip" (True, nothing
\* done), "raw" (False), or the handler the line is routed to
Classify(line) ==
    LET type == MessageType(line.json) IN
    CASE line.text = "" -> "skip"
      [] line.json.t = "invalid" -> "raw"
      [] type = "log" -> IF Get(line.json.o, "message").t = "null" THEN "skip" ELSE "log"
      [] type = "progress" -> "progress"
      [] type = "download" ->
            IF DownloadPath(line.json.o) = NoneStr THEN "skip" ELSE "download"
      [] OTHER -> "raw"

CanRead(p, budget) == pc[p] = "p_read" /\ nLines < budget

\* pump, lines 455-457: a line that process_scraper_line accepts and drops
PumpSkip(p, lines, budget) ==
    /\ CanRead(p, budget)
    /\ \E line \in lines : Classify(line) = "skip"
    /\ nLines' = nLines + 1
    /\ UNCHANGED <<runStateVars, busVars, startVars, pc, loc, proc, sessVars, console,
                   clock>>

\* pump, lines 456-461: process_scraper_line returns False, the line is printed
PumpRaw(p, lines, budget) ==
    /\ CanRead(p, budget)
    /\ \E line \in lines :
          /\ Classify(line) = "raw"
          /\ console' = console \cup {<<p[2], line.text>>}
    /\ nLines' = nLines + 1
    /\ UNCHANGED <<runStateVars, busVars, startVars, pc, loc, proc, sessVars, clock>>

\* handle_structured_message, lines 244-258, and append_log up to line 138
PumpLog(p, lines, budget) ==
    /\ CanRead(p, budget)
    /\ \E line \in lines :
          /\ Classify(line) = "log"
          /\ LET data == line.json.o
                 level == IF "level" \in DOMAIN data THEN data.level.s ELSE "info"
                 stream == IF Truthy(Get(data, "stream")) THEN data.stream.s
                           ELSE IF level \in {"warn", "error"} THEN "stderr" ELSE "stdout"
                 extra == [k \in {"level", "context", "url"} \cap DOMAIN data |->
                              IF k = "level" THEN level ELSE data[k].s]
             IN AppendLog(p, stream, data.message.s, extra, "p_read")
    /\ nLines' = nLines + 1
    /\ UNCHANGED <<State, PROGRESS_STATE, DOWNLOADED_FILES, FILE_REGISTRY, busVars,
                   startVars, proc, alive, sessPc, wire, snapLogs, got, sessErr, subAt, console>>

\* update_progress_state, lines 144-159
PumpProgress(p, lines, budget) ==
    /\ CanRead(p, budget)
    /\ \E line \in lines :
          /\ Classify(line) = "progress"
          /\ LET v == ProgressValues(line.json.o, PROGRESS_STATE) IN
             IF v.ok
             THEN /\ PROGRESS_STATE' = ProgressUpdate(PROGRESS_STATE, v, clock + 1)
                  /\ clock' = clock + 1
                  /\ pc' = [pc EXCEPT ![p] = "g_details"]
                  /\ loc' = [loc EXCEPT ![p] =
                                [k |-> "progress", data |-> line.json.o, v |-> v,
                                 now |-> clock + 1]]
             ELSE \* ValueError out of int() or float(): the pump thread dies
                  /\ pc' = [pc EXCEPT ![p] = "crashed"]
                  /\ UNCHANGED <<PROGRESS_STATE, clock, loc>>
    /\ nLines' = nLines + 1
    /\ UNCHANGED <<State, LOG_HISTORY, DOWNLOADED_FILES, FILE_REGISTRY, busVars,
                   startVars, proc, sessVars, console>>

\* update_progress_state, lines 160-179; the broadcast of line 180 follows
PumpProgressDetails(p) ==
    /\ pc[p] = "g_details"
    /\ PROGRESS_STATE' = ProgressDetails(PROGRESS_STATE, loc[p].data)
    /\ loc' = [loc EXCEPT ![p] =
                  ToBroadcast(ProgressEntry(loc[p].data, loc[p].v, loc[p].now), "p_read")]
    /\ pc' = [pc EXCEPT ![p] = "bcast"]
    /\ UNCHANGED <<State, LOG_HISTORY, DOWNLOADED_FILES, FILE_REGISTRY, busVars,
                   startVars, proc, nLines, sessVars, console, clock>>

\* register_download, lines 185-227: the id is entered in FILE_REGISTRY and the
\* descriptor is built
PumpRegister(p, lines, budget) ==
    /\ CanRead(p, budget)
    /\ \E line \in lines :
          /\ Classify(line) = "download"
          /\ LET path == DownloadPath(line.json.o)
                 info == line.json.o.file.o
                 stamped == ~Truthy(Get(info, "downloadedAt"))
                 now == IF stamped THEN clock + 1 ELSE clock
             IN /\ FILE_REGISTRY' = (FileId(path) :> path) @@ FILE_REGISTRY
                /\ clock' = now
                /\ loc' = [loc EXCEPT ![p] =
                              [k |-> "download", desc |-> Descriptor(info, path, now),
                               dirty |-> FALSE]]
    /\ pc' = [pc EXCEPT ![p] = "d_iter"]
    /\ nLines' = nLines + 1
    /\ UNCHANGED <<State, LOG_HISTORY, PROGRESS_STATE, DOWNLOADED_FILES, busVars,
                   startVars, proc, sessVars, console>>

\* register_download, line 228: the comprehension starts to iterate the deque
PumpScanBegin(p) ==
    /\ pc[p] = "d_iter"
    /\ pc' = [pc EXCEPT ![p] = "d_scan"]
    /\ loc' = [loc EXCEPT ![p].dirty = FALSE]
    /\ UNCHANGED <<runStateVars, busVars, startVars, proc, nLines, sessVars, console,
                   clock>>

\* register_download, lines 228-229: the comprehension ends, with the index of
\* every id, or with RuntimeError when the deque was mutated meanwhile
PumpScan(p) ==
    /\ pc[p] = "d_scan"
    /\ IF loc[p].dirty
       THEN /\ pc' = [pc EXCEPT ![p] = "crashed"]
            /\ loc' = [loc EXCEPT ![p] = NoLoc]
       ELSE LET existing == ExistingIndex(DOWNLOADED_FILES) IN
            IF loc[p].desc.id \in DOMAIN existing
            THEN /\ pc' = [pc EXCEPT ![p] = "d_del"]
                 /\ loc' = [loc EXCEPT ![p] =
                               [k |-> "download", desc |-> loc[p].desc,
                                index |-> existing[loc[p].desc.id]]]
            ELSE /\ pc' = [pc EXCEPT ![p] = "d_push"]
                 /\ loc' = [loc EXCEPT ![p] = [k |-> "download", desc |-> loc[p].desc]]
    /\ UNCHANGED <<runStateVars, busVars, startVars, proc, nLines, sessVars, console,
                   clock>>

\* register_download, lines 230-233: del DOWNLOADED_FILES[index], IndexError passes
PumpDelete(p) ==
    /\ pc[p] = "d_del"
    /\ IF loc[p].index <= Len(DOWNLOADED_FILES)
       THEN /\ DOWNLOADED_FILES' = DequeDel(DOWNLOADED_FILES, loc[p].index)
            /\ sessIt' = TouchFiles(sessIt)
            /\ loc' = [TouchScan(loc, p) EXCEPT ![p] = [k |-> "download", desc |-> loc[p].desc]]
       ELSE /\ loc' = [loc EXCEPT ![p] = [k |-> "download", desc |-> loc[p].desc]]
            /\ UNCHANGED <<DOWNLOADED_FILES, sessIt>>
    /\ pc' = [pc EXCEPT ![p] = "d_push"]
    /\ UNCHANGED <<State, LOG_HISTORY, PROGRESS_STATE, FILE_REGISTRY, busVars, startVars,
                   proc, nLines, alive, sessPc, wire, snapLogs, got, sessErr, subAt, console, clock>>

\* register_download, lines 234-235; the broadcast of line 236 follows
PumpAppendLeft(p) ==
    /\ pc[p] = "d_push"
    /\ DOWNLOADED_FILES' = DequeAppendLeft(DOWNLOADED_FILES, loc[p].desc, FILES_MAXLEN)
    /\ sessIt' = TouchFiles(sessIt)
    /\ loc' = [TouchScan(loc, p) EXCEPT ![p] = ToBroadcast(DownloadEntry(loc[p].desc), "p_read")]
    /\ pc' = [pc EXCEPT ![p] = "bcast"]
    /\ UNCHANGED <<State, LOG_HISTORY, PROGRESS_STATE, FILE_REGISTRY, busVars, startVars,
                   proc, nLines, alive, sessPc, wire, snapLogs, got, sessErr, subAt, console, clock>>

\* pump, lines 455 and 462: readline returns "" once the worker has exited and
\* the pipe is drained; the stream is closed and the pump thread ends
PumpEOF(p) ==
    /\ pc[p] = "p_read"
    /\ proc[p[1]].st = "exited"
    /\ pc' = [pc EXCEPT ![p] = "done"]
    /\ UNCHANGED <<runStateVars, busVars, startVars, loc, proc, nLines, sessVars, console,
                   clock>>

\* ---------------------------------------------------------- _handle_stream
\* format_sse: the event name is the message's type, the data its JSON text
format_sse(message) == [event |-> message.type, data |-> message]

\* lines 582-584: the client is appended to CLIENTS under the lock
Subscribe(c) ==
    /\ sessPc[c] = "idle"
    /\ clientsLock = <<>>
    /\ CLIENTS' = Append(CLIENTS, c)
    /\ sessPc' = [sessPc EXCEPT ![c] = "s_headers"]
    /\ subAt' = [subAt EXCEPT ![c] = Len(published)]
    /\ UNCHANGED <<runStateVars, clientsLock, bcTodo, bcPhase, queue, published, overflow,
                   startVars, pc, loc, proc, nLines, alive, sessIt, wire, snapLogs, got,
                   sessErr, console, clock>>

\* lines 586-593: the response headers are sent and the loop over LOG_HISTORY
\* begins
SnapBegin(c) ==
    /\ sessPc[c] = "s_headers"
    /\ sessPc' = [sessPc EXCEPT ![c] = "s_logs"]
    /\ sessIt' = [sessIt EXCEPT ![c] = [idx |-> 1, dirty |-> FALSE]]
    /\ UNCHANGED <<runStateVars, busVars, startVars, pc, loc, proc, nLines, alive, wire,
                   snapLogs, got, sessErr, subAt, console, clock>>

\* cleanup placed in the except clause instead of a finally: an exception the
\* clause does not name ends the handler at once
RaiseUnhandled(c, err) ==
    /\ sessErr' = [sessErr EXCEPT ![c] = err]
    /\ wire' = [wire EXCEPT ![c] = <<>>]
    /\ sessPc' = [sessPc EXCEPT ![c] = IF err = "disconnect" THEN "s_closing" ELSE "done"]
    /\ sessIt' = [sessIt EXCEPT ![c] = NoIter]

\* lines 610-612: the exception leaves the try block, the finally clause is next
Raise(c, err) ==
    /\ sessErr' = [sessErr EXCEPT ![c] = err]
    /\ wire' = [wire EXCEPT ![c] = <<>>]
    /\ sessPc' = [sessPc EXCEPT ![c] = "s_closing"]
    /\ sessIt' = [sessIt EXCEPT ![c] = NoIter]

\* lines 593-595: one step of the loop over LOG_HISTORY; when it ends the status
\* frame is written
SnapLogNext(c) ==
    /\ sessPc[c] = "s_logs"
    /\ IF sessIt[c].dirty
       THEN Raise(c, "RuntimeError") /\ UNCHANGED snapLogs
       ELSE IF sessIt[c].idx <= Len(LOG_HISTORY)
       THEN /\ wire' = [wire EXCEPT ![c] = <<format_sse(LOG_HISTORY[sessIt[c].idx])>>]
            /\ snapLogs' = [snapLogs EXCEPT ![c] = Append(@, LOG_HISTORY[sessIt[c].idx].time)]
            /\ sessIt' = [sessIt EXCEPT ![c].idx = @ + 1]
            /\ UNCHANGED <<sessPc, sessErr>>
       ELSE /\ wire' = [wire EXCEPT ![c] =
                           <<format_sse([type |-> "status", status |-> State])>>]
            /\ sessPc' = [sessPc EXCEPT ![c] = "s_progress"]
            /\ sessIt' = [sessIt EXCEPT ![c] = NoIter]
            /\ UNCHANGED <<snapLogs, sessErr>>
    /\ UNCHANGED <<runStateVars, busVars, startVars, pc, loc, proc, nLines, alive, got,
                   subAt, console, clock>>

\* lines 596-597: the progress frame is written, the loop over DOWNLOADED_FILES begins
SnapProgress(c) ==
    /\ sessPc[c] = "s_progress"
    /\ wire' = [wire EXCEPT ![c] = <<format_sse([type |-> "progress"] @@ PROGRESS_STATE)>>]
    /\ sessPc' = [sessPc EXCEPT ![c] = "s_files"]
    /\ sessIt' = [sessIt EXCEPT ![c] = [idx |-> 1, dirty |-> FALSE]]
    /\ UNCHANGED <<runStateVars, busVars, startVars, pc, loc, proc, nLines, alive,
                   snapLogs, got, sessErr, subAt, console, clock>>

\* lines 597-599: one step of the loop over DOWNLOADED_FILES, then the flush
SnapFileNext(c) ==
    /\ sessPc[c] = "s_files"
    /\ IF sessIt[c].dirty
       THEN Raise(c, "RuntimeError")
       ELSE IF sessIt[c].idx <= Len(DOWNLOADED_FILES)
       THEN /\ wire' = [wire EXCEPT ![c] =
                           <<format_sse([type |-> "download",
                                         file |-> DOWNLOADED_FILES[sessIt[c].idx]])>>]
            /\ sessIt' = [sessIt EXCEPT ![c].idx = @ + 1]
            /\ UNCHANGED <<sessPc, sessErr>>
       ELSE /\ sessPc' = [sessPc EXCEPT ![c] = "s_live"]
            /\ sessIt' = [sessIt EXCEPT ![c] = NoIter]
            /\ wire' = [wire EXCEPT ![c] = <<>>]
            /\ UNCHANGED sessErr
    /\ UNCHANGED <<runStateVars, busVars, startVars, pc, loc, proc, nLines, alive,
                   snapLogs, got, subAt, console, clock>>

\* lines 601-609: a message is taken from the client's queue and written
SessGet(c) ==
    /\ sessPc[c] = "s_live"
    /\ queue[c] # <<>>
    /\ got' = [got EXCEPT ![c] = Append(@, Head(queue[c]))]
    /\ wire' = [wire EXCEPT ![c] = <<format_sse(published[Head(queue[c])])>>]
    /\ queue' = [queue EXCEPT ![c] = Tail(@)]
    /\ UNCHANGED <<runStateVars, CLIENTS, clientsLock, bcTodo, bcPhase, published,
                   overflow, startVars, pc, loc, proc, nLines, alive, sessPc, sessIt,
                   snapLogs, sessErr, subAt, console, clock>>

InTry(c) == sessPc[c] \in {"s_headers", "s_logs", "s_progress", "s_files", "s_live"}

\* line 610: a write raises ConnectionResetError or BrokenPipeError
SessDisconnect(c) ==
    /\ InTry(c)
    /\ Raise(c, "disconnect")
    /\ UNCHANGED <<runStateVars, busVars, startVars, pc, loc, proc, nLines, alive,
                   snapLogs, got, subAt, console, clock>>

\* line 613: client.alive = False
SessClose(c) ==
    /\ sessPc[c] = "s_closing"
    /\ alive' = [alive EXCEPT ![c] = FALSE]
    /\ sessPc' = [sessPc EXCEPT ![c] = "s_unsub"]
    /\ UNCHANGED <<runStateVars, busVars, startVars, pc, loc, proc, nLines, sessIt, wire,
                   snapLogs, got, sessErr, subAt, console, clock>>

\* lines 614-616: the client is removed from CLIENTS under the lock
SessUnsubscribe(c) ==
    /\ sessPc[c] = "s_unsub"
    /\ clientsLock = <<>>
    /\ CLIENTS' = RemoveFirst(CLIENTS, c)
    /\ sessPc' = [sessPc EXCEPT ![c] = "done"]
    /\ UNCHANGED <<runStateVars, clientsLock, bcTodo, bcPhase, queue, published, overflow,
                   startVars, pc, loc, proc, nLines, alive, sessIt, wire, snapLogs, got, sessErr, subAt,
                   console, clock>>

\* ------------------------------------------------------------ specifications
\* The supervisor without SSE clients: start() calls, run threads, the worker
\* and the two pumps of every run.
SupervisorLines ==
    {line \in WorkerLines : line.text # "{type:download,file:{path:/out/a.md,sizeBytes:2}}"}

StartStep(calls) ==
    \/ \E c \in Callers : CallStart(c, calls)
    \/ \E c \in Callers : StartRejected(c)
    \/ \E c \in Callers : StartAccepted(c)
    \/ \E c \in Callers : ResetFiles(c)
    \/ \E c \in Callers : ResetRegistry(c)
    \/ \E c \in Callers : StartThread(c)

RunStep(codes) ==
    \/ \E r \in Runs : RunSetStarting(r)
    \/ \E r \in Runs : RunSpawned(r)
    \/ \E r \in Runs : RunSpawnFailed(r)
    \/ \E r \in Runs : RunSetError(r)
    \/ \E r \in Runs : RunSetRunning(r)
    \/ \E r \in Runs : RunStartPumps(r)
    \/ \E r \in Runs : WorkerExit(r, codes)
    \/ \E r \in Runs : RunWait(r)
    \/ \E r \in Runs : RunJoin(r)
    \/ \E r \in Runs : RunSetFinished(r)
    \/ \E r \in Runs : RunClear(r)
    \/ \E t \in Threads : BcastAcquire(t)

NextSupervisor ==
    \/ StartStep(MaxCalls)
    \/ RunStep({0, 1})
    \/ \E p \in Pumps : PumpSkip(p, SupervisorLines, MaxLines)
    \/ \E p \in Pumps : PumpRaw(p, SupervisorLines, MaxLines)
    \/ \E p \in Pumps : PumpLog(p, SupervisorLines, MaxLines)
    \/ \E p \in Pumps : PumpProgress(p, SupervisorLines, MaxLines)
    \/ \E p \in Pumps : PumpProgressDetails(p)
    \/ \E p \in Pumps : PumpRegister(p, SupervisorLines, MaxLines)
    \/ \E p \in Pumps : PumpScanBegin(p)
    \/ \E p \in Pumps : PumpScan(p)
    \/ \E p \in Pumps : PumpAppendLeft(p)
    \/ \E p \in Pumps : PumpEOF(p)

SpecSupervisor == Init /\ [][NextSupervisor]_vars

\* the steps of the run thread of run r
RunThread(r) ==
    \/ RunSetStarting(r)
    \/ RunSpawned(r)
    \/ RunSpawnFailed(r)
    \/ RunSetError(r)
    \/ RunSetRunning(r)
    \/ RunStartPumps(r)
    \/ RunWait(r)
    \/ RunJoin(r)
    \/ RunSetFinished(r)
    \/ RunClear(r)
    \/ BcastAcquire(RunT(r))

\* The supervisor with a run thread that is scheduled whenever it can take a
\* step.  Nothing is assumed of the worker, which may run forever, nor of the
\* pumps, which may stay blocked on their pipe, nor of the callers.
SpecSupervisorFair ==
    SpecSupervisor /\ \A r \in Runs : WF_vars(RunThread(r))

\* One run observed by SSE clients: the run thread and both pumps broadcast
\* while the stream handlers write their snapshot and drain their queue.
StreamLines ==
    {line \in WorkerLines :
        line.text \in {"{type:log,message:m,level:warn}",
                       "{type:progress,total:2,completed:1}",
                       "{type:download,file:{path:/out/a.md,sizeBytes:1}}"}}

SessionStep ==
    \/ \E c \in Clients : Subscribe(c)
    \/ \E c \in Clients : SnapBegin(c)
    \/ \E c \in Clients : SnapLogNext(c)
    \/ \E c \in Clients : SnapProgress(c)
    \/ \E c \in Clients : SnapFileNext(c)
    \/ \E c \in Clients : SessGet(c)
    \/ \E c \in Clients : SessDisconnect(c)
    \/ \E c \in Clients : SessClose(c)
    \/ \E c \in Clients : SessUnsubscribe(c)
    \/ PushPut
    \/ PushEvict
    \/ PushReput

NextStream ==
    \/ CallStart(1, 1)
    \/ StartAccepted(1)
    \/ ResetFiles(1)
    \/ ResetRegistry(1)
    \/ StartThread(1)
    \/ RunStep({0})
    \/ \E p \in Pumps : PumpLog(p, StreamLines, StreamMaxLines)
    \/ \E p \in Pumps : PumpProgress(p, StreamLines, StreamMaxLines)
    \/ \E p \in Pumps : PumpProgressDetails(p)
    \/ \E p \in Pumps : PumpRegister(p, StreamLines, StreamMaxLines)
    \/ \E p \in Pumps : PumpScanBegin(p)
    \/ \E p \in Pumps : PumpScan(p)
    \/ \E p \in Pumps : PumpAppendLeft(p)
    \/ \E p \in Pumps : PumpEOF(p)
    \/ SessionStep

SpecStream == Init /\ [][NextStream]_vars

\* The state in which the first run has started its pumps and nothing has been
\* read yet: what Init becomes after start_scraper and run_scraper up to line 467.
InitRunning ==
    /\ State = "running"
    /\ LOG_HISTORY = <<ListeningEntry>>
    /\ PROGRESS_STATE = InitialProgress
    /\ DOWNLOADED_FILES = <<>>
    /\ FILE_REGISTRY = <<>>
    /\ CLIENTS = <<>>
    /\ clientsLock = <<>>
    /\ bcTodo = <<>>
    /\ bcPhase = "put"
    /\ SCRAPER_THREAD = 1
    /\ SCRAPER_PROCESS = 1
    /\ callPc = [c \in Callers |-> "idle"]
    /\ callRes = [c \in Callers |-> IF c = 1 THEN "ok" ELSE "none"]
    /\ nCalls = 1
    /\ nRuns = 1
    /\ pc = [t \in Threads |-> IF t = RunT(1) THEN "r_wait"
                               ELSE IF t[1] = 1 THEN "p_read" ELSE "none"]
    /\ loc = [t \in Threads |-> NoLoc]
    /\ proc = [r \in Runs |-> [st |-> IF r = 1 THEN "live" ELSE "none", code |-> 0]]
    /\ nLines = 0
    /\ queue = [c \in Clients |-> <<>>]
    /\ alive = [c \in Clients |-> TRUE]
    /\ sessPc = [c \in Clients |-> "idle"]
    /\ sessIt = [c \in Clients |-> NoIter]
    /\ wire = [c \in Clients |-> <<>>]
    /\ snapLogs = [c \in Clients |-> <<>>]
    /\ got = [c \in Clients |-> <<>>]
    /\ sessErr = [c \in Clients |-> "none"]
    /\ published = <<ListeningEntry, StatusEvent("starting", [args |-> <<>>]),
                     StatusEvent("running", [pid |-> 1])>>
    /\ overflow = {}
    /\ console = {}
    /\ clock = 1
    /\ subAt = [c \in Clients |-> 0]
    /\ sawRun = [c \in Callers |-> FALSE]
    /\ race = [calls |-> {}, res |-> <<>>]

\* a key that is absent from a payload, or present with one of the values
Field(key, values) == {<<>>} \cup {key :> v : v \in values}

\* Progress messages one after the other on the stdout pipe of the run: every
\* combination of the numeric fields, each absent or one of a few values.
ProgressLines ==
    { [text |-> "{type:progress,...}",
       json |-> JObj([type |-> JStr("progress")] @@ total @@ completed @@ active
                                                 @@ pending @@ percent)] :
        total \in Field("total", {JNum(0), JNum(2), JNum(-2), JStr("many")}),
        completed \in Field("completed", {JNum(1), JNum(3), JStr("some")}),
        active \in Field("active", {JNum(1), JStr("few")}),
        pending \in Field("pending", {JNum(0), JNum(2)}),
        percent \in Field("percent", {JNum(0), JNum(150), JNum(-5), JNaN, JInf, JNegInf}) }

NextProgress ==
    \/ PumpProgress(PumpT(1, "stdout"), ProgressLines, ProgressCalls)
    \/ PumpProgressDetails(PumpT(1, "stdout"))
    \/ BcastAcquire(PumpT(1, "stdout"))

SpecProgress == InitRunning /\ [][NextProgress]_vars

\* Download messages one after the other on the stdout pipe of the run.
DownloadLines ==
    { [text |-> "{type:download,file:{...}}",
       json |-> JObj([type |-> JStr("download"),
                      file |-> JObj([path |-> JStr(path)] @@ size @@ mime)])] :
        path \in DOMAIN PathFacts,
        size \in Field("sizeBytes", {JNum(1), JNum(2)}),
        mime \in Field("mime", {JStr("text/plain")}) }

NextDownloads ==
    \/ PumpRegister(PumpT(1, "stdout"), DownloadLines, DownloadCalls)
    \/ PumpScanBegin(PumpT(1, "stdout"))
    \/ PumpScan(PumpT(1, "stdout"))
    \/ PumpDelete(PumpT(1, "stdout"))
    \/ PumpAppendLeft(PumpT(1, "stdout"))
    \/ BcastAcquire(PumpT(1, "stdout"))

SpecDownloads == InitRunning /\ [][NextDownloads]_vars

\* Log messages on both pipes of the run, more of them than LOG_HISTORY holds.
LogLines ==
    { [text |-> "{type:log,...}",
       json |-> JObj([type |-> JStr("log"), message |-> JStr(message)] @@ level)] :
        message \in {"m", "n"},
        level \in Field("level", {JStr("warn")}) }

NextLogs ==
    \/ \E s \in Streams : PumpLog(PumpT(1, s), LogLines, LogCalls)
    \/ \E s \in Streams : BcastAcquire(PumpT(1, s))

SpecLogs == InitRunning /\ [][NextLogs]_vars


\* ===================================================================== properties
\* ------------------------------------------------------------ shared vocabulary
Last(seq) == seq[Len(seq)]

IsStatus(m) == m.type = "status"

\* the StatusEvents published so far, in publication order
PublishedStatus == SelectSeq(published, IsStatus)

\* a thread has written STATE in set_status and has not yet published the event
PendingStatus(t) ==
    /\ pc[t] = "bcast"
    /\ loc[t].msg.type = "status"
    /\ clientsLock # <<t>>

\* the values the status has taken since the program started
StatusTrace ==
    <<"idle">> \o [i \in 1..Len(PublishedStatus) |-> PublishedStatus[i].status]
               \o (IF \E t \in Threads : PendingStatus(t) THEN <<State>> ELSE <<>>)

StatusEdges ==
    {<<"idle", "starting">>, <<"starting", "running">>, <<"starting", "error">>,
     <<"running", "finished">>, <<"running", "error">>,
     <<"finished", "starting">>, <<"error", "starting">>}

TerminalStatus == {"finished", "error"}

\* the position in PublishedStatus of the 'starting' event of run r, 0 when it
\* has not been published
StartIdx(r) ==
    LET S == PublishedStatus
        at == {i \in 1..Len(S) :
                 /\ S[i].status = "starting"
                 /\ Cardinality({j \in 1..i : S[j].status = "starting"}) = r}
    IN IF at = {} THEN 0 ELSE CHOOSE i \in at : TRUE

\* the StatusEvents of run r: from its 'starting' up to the next 'starting'
RunEvents(r) ==
    LET S == PublishedStatus
        from == StartIdx(r)
        next == IF r + 1 \in Runs THEN StartIdx(r + 1) ELSE 0
    IN IF from = 0 THEN <<>>
       ELSE SubSeq(S, from, IF next = 0 THEN Len(S) ELSE next - 1)

\* the run thread has published its last status and is clearing the globals
Settled(r) == pc[RunT(r)] \in {"r_clear", "done"}

\* Popen raised for run r
SpawnFailed(r) ==
    /\ proc[r].st = "none"
    /\ pc[RunT(r)] \notin {"none", "r_starting", "r_popen"}
    /\ ~(pc[RunT(r)] = "bcast" /\ loc[RunT(r)].ret = "r_popen")

RunsAlive == {r \in Runs : ThreadAlive(r)}

WorkersLive == {r \in Runs : proc[r].st = "live"}

\* two start() calls overlapped while no run was in flight, and both returned
RaceOver == race.calls = {} /\ Len(race.res) = 2

\* ----------------------------------------------------------------------- C1
\* C1 as stated: at most one run thread and one worker process exist at any
\* time, and of two start() calls that overlap while no run is in flight exactly
\* one is accepted and the other is rejected as busy.
C1_ExactlyOneAccepted ==
    /\ Cardinality(RunsAlive) <= 1
    /\ Cardinality(WorkersLive) <= 1
    /\ RaceOver => {race.res[1].res, race.res[2].res} = {"ok", "busy"}

\* C1 amended: at most one run thread and one worker process exist at any time;
\* a start() call is rejected as busy exactly when a run thread is alive at the
\* moment it makes its check under the lock, and of two overlapping calls made
\* while no run is in flight the first to take the lock is accepted.
C1_SingleFlight ==
    /\ Cardinality(RunsAlive) <= 1
    /\ Cardinality(WorkersLive) <= 1
    /\ WorkersLive \subseteq RunsAlive
    /\ \A i \in 1..Len(race.res) : (race.res[i].res = "busy") <=> race.res[i].inflight
    /\ race.res # <<>> => race.res[1].res = "ok"

\* two calls overlapped, one was accepted and the other rejected while the
\* accepted run was in flight
C1_Witness ==
    /\ RaceOver
    /\ race.res[1].res = "ok"
    /\ race.res[2].res = "busy"
    /\ Cardinality(RunsAlive) = 1

\* ----------------------------------------------------------------------- C4
\* C4: every worker output line that the pump treats as raw (not JSON, not a
\* JSON object, or of an absent or unknown type) has a LogEvent with the stream
\* of origin and the line as message among the published events.
C4_RawLineLogged ==
    \A line \in console :
        \E i \in 1..Len(published) :
            /\ published[i].type = "log"
            /\ published[i].stream = line[1]
            /\ published[i].message = line[2]

\* ----------------------------------------------------------------------- C6
\* C6: the values taken by the status, and the published StatusEvents, follow
\* idle->starting, starting->running, starting->error, running->finished,
\* running->error and finished/error->starting only; the events of one run are
\* a prefix of starting,running,finished or of starting,error, so 'running'
\* always follows the 'starting' of the same run, and a run that has settled
\* has published exactly one terminal StatusEvent, its last.
C6_StatusMachine ==
    /\ State = Last(StatusTrace)
    /\ \A i \in 1..(Len(StatusTrace) - 1) :
          <<StatusTrace[i], StatusTrace[i + 1]>> \in StatusEdges
    /\ \A r \in Runs :
          LET E == RunEvents(r)
              terminal == {i \in 1..Len(E) : E[i].status \in TerminalStatus}
          IN /\ \A i \in 1..Len(E) : E[i].status = "running" => i = 2
             /\ terminal \subseteq {Len(E)}
             /\ Settled(r) => Cardinality(terminal) = 1
             /\ pc[RunT(r)] = "none" => E = <<>>

\* a second run has been accepted after the first one finished, and is starting
C6_Witness ==
    /\ State = "starting"
    /\ Len(PublishedStatus) >= 4
    /\ PublishedStatus[3].status = "finished"
    /\ PublishedStatus[4].status = "starting"

\* ---------------------------------------------------------------------- C10
\* C10: when Popen raises for a run, no pump of that run is started, the
\* StatusEvents of the run are 'starting' followed directly by 'error' with
\* reason node-not-found or spawn-failed, 'running' is never published for it,
\* and once its thread has ended no run is in flight unless a later start() was
\* accepted.
C10_SpawnFailure ==
    \A r \in Runs :
        SpawnFailed(r) =>
            /\ \A s \in Streams : pc[PumpT(r, s)] = "none"
            /\ \A i \in 1..Len(RunEvents(r)) : RunEvents(r)[i].status # "running"
            /\ PendingStatus(RunT(r)) => loc[RunT(r)].msg.status # "running"
            /\ Settled(r) =>
                  /\ Len(RunEvents(r)) = 2
                  /\ RunEvents(r)[1].status = "starting"
                  /\ \E x \in DOMAIN SpawnErrors :
                        RunEvents(r)[2] = StatusEvent("error", [reason |-> x])
            /\ (pc[RunT(r)] = "done" /\ nRuns = r) =>
                  /\ ~scraper_running
                  /\ SCRAPER_THREAD = 0
                  /\ SCRAPER_PROCESS = 0

\* the first run failed to spawn and ended, and a later start() was accepted
C10_Witness ==
    /\ SpawnFailed(1)
    /\ pc[RunT(1)] = "done"
    /\ nRuns = 2
    /\ callRes[1] = "ok" \/ callRes[2] = "ok"

\* ------------------------------------------------------------- subscribers
Subscribed(c) == sessPc[c] # "idle"

\* the events client c has taken from its mailbox followed by those still in
\* it, as positions in the published sequence
Observed(c) == got[c] \o queue[c]

\* the number of published events whose push to client c has been attempted:
\* the event of a broadcast in progress that has not come to c is not counted
Reached(c) ==
    IF clientsLock # <<>> /\ InSeq(c, bcTodo) THEN Len(published) - 1 ELSE Len(published)

\* a push to client c found the mailbox full and has not yet put its event
Overflowing(c) ==
    /\ clientsLock # <<>>
    /\ bcPhase \in {"evict", "reput"}
    /\ Head(bcTodo) = c

Contiguous(seq) == \A i \in 1..(Len(seq) - 1) : seq[i + 1] = seq[i] + 1

Increasing(seq) == \A i \in 1..(Len(seq) - 1) : seq[i + 1] > seq[i]

\* ----------------------------------------------------------------------- C2
\* C2: a subscriber whose mailbox never overflowed has dequeued, or still holds
\* in its mailbox, exactly the events published since it subscribed, in the
\* order of publication, whichever threads published them; once its session is
\* closing it holds a prefix of them.
C2_FifoDelivery ==
    \A c \in Clients :
        (Subscribed(c) /\ c \notin overflow) =>
            /\ \A i \in 1..Len(Observed(c)) : Observed(c)[i] = subAt[c] + i
            /\ Len(Observed(c)) <= Reached(c) - subAt[c]
            /\ alive[c] => Len(Observed(c)) = Reached(c) - subAt[c]

\* a subscriber without overflow has dequeued a StatusEvent of the run thread
\* and an event of a pump
C2_Witness ==
    \E c \in Clients :
        /\ c \notin overflow
        /\ alive[c]
        /\ \E i, j \in 1..Len(got[c]) :
              /\ published[got[c][i]].type = "status"
              /\ published[got[c][j]].type \in {"log", "progress", "download"}
              /\ published[got[c][j]].time > 1

\* ----------------------------------------------------------------------- C3
\* C3 as stated: a mailbox never holds more than its capacity and what the
\* subscriber observes (dequeued events and those still queued) is a suffix of
\* the published sequence: consecutive events up to the newest one.
C3_ObservedSuffix ==
    \A c \in Clients :
        Subscribed(c) =>
            /\ Len(queue[c]) <= QUEUE_MAXSIZE
            /\ Contiguous(Observed(c))
            /\ (alive[c] /\ Observed(c) # <<>> /\ ~Overflowing(c)) =>
                  Last(Observed(c)) = Reached(c)

\* C3 amended: a mailbox never holds more than its capacity; its content is a
\* run of consecutive events that ends, while the subscriber is open and no
\* push to it is between its eviction and its second put, with the newest event
\* pushed to it, so an overflow drops the oldest queued events and never the
\* new one; what the subscriber observes is an order-preserving
\* subsequence of the published events, without repetition; and a push in
\* progress can always take its next step, whatever the subscriber does.
C3_DropOldest ==
    /\ \A c \in Clients :
          Subscribed(c) =>
              /\ Len(queue[c]) <= QUEUE_MAXSIZE
              /\ Contiguous(queue[c])
              /\ Increasing(Observed(c))
              /\ \A i \in 1..Len(Observed(c)) :
                    Observed(c)[i] > subAt[c] /\ Observed(c)[i] <= Reached(c)
              /\ (alive[c] /\ Reached(c) > subAt[c] /\ ~Overflowing(c)) =>
                    /\ Observed(c) # <<>>
                    /\ Last(Observed(c)) = Reached(c)
    /\ clientsLock # <<>> => ENABLED (PushPut \/ PushEvict \/ PushReput)

\* a subscriber that had dequeued an event lost queued events to an overflow:
\* its mailbox is full and holds the newest event
C3_Witness ==
    \E c \in Clients :
        /\ c \in overflow
        /\ alive[c]
        /\ clientsLock = <<>>
        /\ got[c] # <<>>
        /\ Len(queue[c]) = QUEUE_MAXSIZE
        /\ Last(queue[c]) = Len(published)
        /\ ~Contiguous(Observed(c))

\* ----------------------------------------------------------------------- C5
\* C5: a session emits its snapshot completely before it turns to its mailbox:
\* the snapshot is cut short by nothing but the observer's disconnect, also
\* when events are applied while it is written.
C5_SnapshotComplete ==
    \A c \in Clients :
        /\ sessErr[c] \in {"none", "disconnect"}
        /\ got[c] # <<>> => sessPc[c] \notin {"s_headers", "s_logs", "s_progress", "s_files"}

\* ----------------------------------------------------------------------- C9
\* C9: a session that has terminated, after a disconnect or after any other
\* error, has its subscriber marked closed and out of CLIENTS; CLIENTS holds
\* each session that is still running exactly once, and nothing else.
C9_NoLeakedSubscribers ==
    /\ \A c \in Clients :
          sessPc[c] = "done" => ~alive[c] /\ ~InSeq(c, CLIENTS)
    /\ {CLIENTS[i] : i \in 1..Len(CLIENTS)} = {c \in Clients : sessPc[c] \notin {"idle", "done"}}
    /\ \A i, j \in 1..Len(CLIENTS) : CLIENTS[i] = CLIENTS[j] => i = j

\* a session ended by an error other than a disconnect has terminated
C9_Witness ==
    \E c \in Clients :
        /\ sessPc[c] = "done"
        /\ sessErr[c] = "RuntimeError"

\* ----------------------------------------------------------------------- C7
DownloadEvents == SelectSeq(published, LAMBDA m : m.type = "download")

\* the file of the last download event published for an id
LatestFile(id) ==
    LET D == DownloadEvents
        at == {i \in 1..Len(D) : D[i].file.id = id}
    IN D[CHOOSE i \in at : \A j \in at : j <= i].file

\* no register_download is under way
NoRegistration == \A t \in Threads : pc[t] \notin {"d_iter", "d_scan", "d_del", "d_push", "bcast"}

\* C7: after any sequence of register_download calls, DOWNLOADED_FILES holds at
\* most one entry per id, every entry carries the attributes of the latest call
\* for its path, the entry of the latest call is at the front, and all calls
\* for one path produced the same id.
C7_UpsertIdempotent ==
    /\ \A i, j \in 1..Len(DOWNLOADED_FILES) :
          DOWNLOADED_FILES[i].id = DOWNLOADED_FILES[j].id => i = j
    /\ NoRegistration =>
          /\ \A i \in 1..Len(DOWNLOADED_FILES) :
                DOWNLOADED_FILES[i] = LatestFile(DOWNLOADED_FILES[i].id)
          /\ DownloadEvents # <<>> =>
                /\ DOWNLOADED_FILES # <<>>
                /\ DOWNLOADED_FILES[1] = Last(DownloadEvents).file
    /\ \A id \in DOMAIN FILE_REGISTRY : id = FileId(FILE_REGISTRY[id])

\* a path was registered, then another path, then the first path again with
\* another size
C7_Witness ==
    /\ NoRegistration
    /\ Len(DownloadEvents) = 3
    /\ DownloadEvents[1].file.id = DownloadEvents[3].file.id
    /\ DownloadEvents[1].file.id # DownloadEvents[2].file.id
    /\ DownloadEvents[1].file.sizeBytes # DownloadEvents[3].file.sizeBytes
    /\ Len(DOWNLOADED_FILES) = 2

\* ----------------------------------------------------------------------- C8
InRange(x) == x \in Int /\ x >= 0 /\ x <= 100

ProgressEvents == SelectSeq(published, LAMBDA m : m.type = "progress")

\* the progress payload being applied, when update_progress_state has passed
\* its first PROGRESS_STATE.update
Applying(t) == pc[t] = "g_details"

\* C8: the percent of every published ProgressEvent and of PROGRESS_STATE is a
\* number between 0 and 100; when a payload is applied, total = 0 without a
\* percent gives 100, a supplied percent above 100 gives 100, a supplied
\* negative percent gives 0, and a computed completed/total*100 outside the
\* range is clamped to the nearer end.
C8_PercentInRange ==
    /\ InRange(PROGRESS_STATE.percent)
    /\ \A i \in 1..Len(ProgressEvents) : InRange(ProgressEvents[i].percent)
    /\ \A t \in Threads :
          Applying(t) =>
              LET data == loc[t].data
                  given == Get(data, "percent")
                  total == Get(data, "total")
                  completed == Get(data, "completed")
                  percent == PROGRESS_STATE.percent
              IN /\ loc[t].v.percent = percent
                 /\ (~Truthy(given) /\ ~Truthy(total)) => percent = 100
                 /\ (given.t = "num" /\ given.v > 100) => percent = 100
                 /\ (given.t = "num" /\ given.v < 0) => percent = 0
                 /\ (~Truthy(given) /\ Truthy(total) /\ Truthy(completed)) =>
                       LET raw == Ratio100(completed.v, total.v)
                       IN percent = IF raw > 100 THEN 100 ELSE IF raw < 0 THEN 0 ELSE raw

\* a payload without percent whose completed/total*100 is 150 is being
\* applied, after a ProgressEvent with percent 100 was published
C8_Witness ==
    \E t \in Threads :
        /\ Applying(t)
        /\ Get(loc[t].data, "percent") = JNull
        /\ Get(loc[t].data, "total") = JNum(2)
        /\ Get(loc[t].data, "completed") = JNum(3)
        /\ \E i \in 1..Len(ProgressEvents) : ProgressEvents[i].percent = 100

\* ---------------------------------------------------------------------- C11
\* the pump thread has read its stream to the end and closed it
Drained(p) == pc[p] = "done"

\* C11: once the terminal StatusEvent of a run is published both pumps of the
\* run have read to end-of-stream, and no log, progress or download event
\* follows a terminal StatusEvent: the next published event, if any, is the
\* 'starting' of the next run.
C11_PumpsDrained ==
    /\ \A r \in Runs :
          (Settled(r) /\ proc[r].st = "exited") =>
              \A s \in Streams : Drained(PumpT(r, s))
    /\ \A i \in 1..(Len(published) - 1) :
          (IsStatus(published[i]) /\ published[i].status \in TerminalStatus) =>
              (IsStatus(published[i + 1]) /\ published[i + 1].status = "starting")

\* ---------------------------------------------------------------------- C12
\* the positions in LOG_HISTORY of a published message (none when it is not a
\* log entry or has left the ring)
LogPositions(m) == {k \in 1..Len(LOG_HISTORY) : LOG_HISTORY[k] = m}

\* C12: two LogEvents that are both in LOG_HISTORY were published, and stand
\* in every subscriber's mailbox and dequeued events, in the order in which
\* LOG_HISTORY holds them.
C12_LogOrderMatchesDelivery ==
    /\ \A a, b \in 1..Len(published) :
          \A i \in LogPositions(published[a]), j \in LogPositions(published[b]) :
              i < j => a < b
    /\ \A c \in Clients :
          \A x, y \in 1..Len(Observed(c)) :
              \A i \in LogPositions(published[Observed(c)[x]]),
                 j \in LogPositions(published[Observed(c)[y]]) :
                  i < j => x < y

\* ---------------------------------------------------------------------- C13
\* C13: in every reachable state, also while both pumps of a run register
\* downloads, DOWNLOADED_FILES holds at most one entry per id.
C13_NoDuplicateIds ==
    Cardinality({DOWNLOADED_FILES[i].id : i \in 1..Len(DOWNLOADED_FILES)})
        = Len(DOWNLOADED_FILES)

\* ---------------------------------------------------------------------- C14
\* the value of a payload field is a string that int() rejects
NonNumeric(x) == x.t = "str" /\ x.s \notin DOMAIN NumericStrings

\* C14: no progress line makes the pump that read it fail: the pump goes on
\* reading, every line read so far has produced its ProgressEvent, and a
\* payload whose total, completed or active is non-numeric is applied with
\* that field equal to 0.
C14_MalformedNumericTolerated ==
    /\ \A p \in Pumps :
          /\ pc[p] # "crashed"
          /\ Applying(p) =>
                \A f \in {"total", "completed", "active"} :
                    NonNumeric(Get(loc[p].data, f)) => PROGRESS_STATE[f] = 0
    /\ (\A p \in Pumps : pc[p] \in {"none", "p_read"}) =>
          Len(ProgressEvents) = nLines

\* ---------------------------------------------------------------------- C19
\* C19: when a progress payload is applied, pending is the payload's pending
\* whenever the field is present, an explicit 0 included, and
\* max(total - completed - active, 0) only when the field is absent.
C19_PendingDefault ==
    \A t \in Threads :
        Applying(t) =>
            LET given == Get(loc[t].data, "pending")
                state == PROGRESS_STATE
            IN /\ given.t = "num" => state.pending = given.v
               /\ given = JNull =>
                     state.pending = Max0(state.total - state.completed - state.active)

\* ---------------------------------------------------------------------- C15
\* the event carries the timestamp field of the events, "time"
Timestamped(m) == "time" \in DOMAIN m

\* C15: every event that is broadcast, and every event that a session writes
\* (the frames of its snapshot and the events it dequeues), carries a
\* timestamp field.
C15_EventsTimestamped ==
    /\ \A i \in 1..Len(published) : Timestamped(published[i])
    /\ \A c \in Clients :
          \A k \in 1..Len(wire[c]) : Timestamped(wire[c][k].data)

\* ---------------------------------------------------------------------- C17
\* C17: when the worker of a run has exited and the run has published its
\* last status, that StatusEvent is 'finished' with the worker's exit code,
\* whatever the code; an 'error' StatusEvent, published or about to be, and the
\* status 'error' belong to a run whose spawn failed.
C17_ExitCodePassThrough ==
    /\ \A r \in Runs :
          /\ (Settled(r) /\ proc[r].st = "exited") =>
                Last(RunEvents(r)) = StatusEvent("finished", [code |-> proc[r].code])
          /\ \A i \in 1..Len(RunEvents(r)) :
                RunEvents(r)[i].status = "error" => SpawnFailed(r)
          /\ (PendingStatus(RunT(r)) /\ loc[RunT(r)].msg.status = "error") =>
                SpawnFailed(r)
    /\ State = "error" => \E r \in Runs : SpawnFailed(r)

\* a worker exited with a non-zero code and its run published 'finished' with
\* that code
C17_Witness ==
    \E r \in Runs :
        /\ Settled(r)
        /\ proc[r] = [st |-> "exited", code |-> 1]
        /\ Last(RunEvents(r)) = StatusEvent("finished", [code |-> 1])

\* ---------------------------------------------------------------------- C18
\* caller c moves from one place of start_scraper to another in this step
CallerMoves(c, from, to) == callPc[c] = from /\ callPc'[c] = to

\* C18: the reset of an accepted start() puts PROGRESS_STATE back to its
\* initial values, empties DOWNLOADED_FILES and FILE_REGISTRY, and changes
\* neither the status nor LOG_HISTORY; a start() rejected as busy changes none
\* of the five, and neither does the creation of the run thread.
C18_ResetFrame ==
    [][\A c \in Callers :
          /\ CallerMoves(c, "lock", "reset_files") =>
                /\ PROGRESS_STATE' = InitialProgress
                /\ UNCHANGED <<State, LOG_HISTORY>>
          /\ CallerMoves(c, "reset_files", "reset_registry") =>
                /\ DOWNLOADED_FILES' = <<>>
                /\ UNCHANGED <<State, LOG_HISTORY, PROGRESS_STATE>>
          /\ CallerMoves(c, "reset_registry", "spawn") =>
                /\ FILE_REGISTRY' = <<>>
                /\ UNCHANGED <<State, LOG_HISTORY, PROGRESS_STATE, DOWNLOADED_FILES>>
          /\ CallerMoves(c, "lock", "idle") =>
                /\ callRes'[c] = "busy"
                /\ UNCHANGED runStateVars
          /\ CallerMoves(c, "spawn", "idle") =>
                /\ callRes'[c] = "ok"
                /\ UNCHANGED runStateVars]_vars

\* the reset of a second accepted start() is complete: a run has finished and
\* had registered a download, and progress, downloads and registry are back to
\* their initial values while the status is still 'finished'
C18_Witness ==
    \E c \in Callers :
        /\ callPc[c] = "spawn"
        /\ nRuns = 1
        /\ State = "finished"
        /\ Len(DownloadEvents) > 0
        /\ PROGRESS_STATE = InitialProgress
        /\ DOWNLOADED_FILES = <<>>
        /\ FILE_REGISTRY = <<>>

\* ---------------------------------------------------------------------- C20
\* the LogEvents applied so far: those published and those whose broadcast is
\* still to come; the time of an entry is its place in the order of application
AppliedLogs ==
    {published[i] : i \in {k \in 1..Len(published) : published[k].type = "log"}}
        \cup {loc[t].msg : t \in {u \in Threads : pc[u] = "bcast" /\ loc[u].msg.type = "log"}}

\* the applied LogEvents with fewer than n later ones
MostRecent(n) ==
    {e \in AppliedLogs : Cardinality({x \in AppliedLogs : x.time > e.time}) < n}

\* C20: LOG_HISTORY never holds more than its maxlen N entries, and after any
\* sequence of applied LogEvents it holds exactly the N most recent of them
\* (all of them while there are fewer), oldest first.
C20_BoundedRing ==
    /\ Len(LOG_HISTORY) <= LOG_MAXLEN
    /\ {LOG_HISTORY[i] : i \in 1..Len(LOG_HISTORY)} = MostRecent(LOG_MAXLEN)
    /\ Len(LOG_HISTORY) = Cardinality(MostRecent(LOG_MAXLEN))
    /\ \A i, j \in 1..Len(LOG_HISTORY) :
          i < j => LOG_HISTORY[i].time < LOG_HISTORY[j].time

\* more LogEvents were applied than LOG_HISTORY holds, and the oldest are gone
C20_Witness ==
    /\ Cardinality(AppliedLogs) > LOG_MAXLEN + 1
    /\ Len(LOG_HISTORY) = LOG_MAXLEN
    /\ \A i \in 1..Len(LOG_HISTORY) : LOG_HISTORY[i] # ListeningEntry

\* ---------------------------------------------------------------------- C16
\* run r has settled: its thread has ended, and unless a later run has been
\* started the status is terminal and a start() would be accepted
RunOver(r) ==
    /\ pc[RunT(r)] = "done"
    /\ nRuns = r => (State \in TerminalStatus /\ ~scraper_running)

\* C16: once the spawn of an accepted run has failed or its worker has exited,
\* the run eventually settles: a terminal status is published, the run thread
\* ends and start() is accepted again, whatever its pumps do.
C16_RunSettles ==
    \A r \in Runs :
        ((pc[RunT(r)] # "none" /\ (SpawnFailed(r) \/ proc[r].st = "exited")) ~> RunOver(r))

\* a run has settled and was followed by an accepted start() although one of
\* its pumps stopped early or had not ended
C16_Witness ==
    \E r \in Runs :
        /\ RunOver(r)
        /\ proc[r].st = "exited"
        /\ pc[PumpT(r, "stdout")] = "crashed"
        /\ pc[PumpT(r, "stderr")] = "p_read"
        /\ nRuns > r

\* ---------------------------------------------------------------------- C21
\* a start() has been accepted after run r: its reset has begun or run r + 1
\* has been started
AcceptedAfter(r) ==
    \/ nRuns > r
    \/ nRuns = r /\ \E c \in Callers : callPc[c] \in {"reset_files", "reset_registry", "spawn"}

\* the pump is inside update_progress_state or register_download, after the
\* first write of the call and up to its broadcast
ApplyingEvent(p) ==
    \/ pc[p] \in {"g_details", "d_iter", "d_scan", "d_del", "d_push"}
    \/ pc[p] = "bcast" /\ loc[p].msg.type \in {"progress", "download"}

\* C21: once a start() has been accepted after run r, no pump of run r is
\* applying a progress or download event to PROGRESS_STATE, DOWNLOADED_FILES
\* or FILE_REGISTRY any more.
C21_RunIsolation ==
    \A r \in Runs :
        AcceptedAfter(r) => \A s \in Streams : ~ApplyingEvent(PumpT(r, s))

\* ---------------------------------------------------------------------- C22
\* C22: within one session no LogEvent is written twice: a LogEvent that the
\* session has written as part of its snapshot is not among the events it has
\* taken from its mailbox and written.
C22_NoDuplicateDelivery ==
    \A c \in Clients :
        \A k \in 1..Len(got[c]) :
            published[got[c][k]].type = "log" =>
                \A j \in 1..Len(snapLogs[c]) : snapLogs[c][j] # published[got[c][k]].time

\* ---------------------------------------------------------------------- C23
\* C23: in every reachable state the id of every entry of DOWNLOADED_FILES is
\* a key of FILE_REGISTRY, the table of the preview lookup.
C23_RegistryConsistent ==
    \A i \in 1..Len(DOWNLOADED_FILES) : DOWNLOADED_FILES[i].id \in DOMAIN FILE_REGISTRY

====
